---- MODULE Spec2Model ----
(***************************************************************************)
(* Ticket and staff-application workflow of the portal server              *)
(* (src/server/routes.ts): the HTTP handlers registered by registerRoutes  *)
(* and the DatabaseStorage methods they call.  Every awaited database      *)
(* statement that reads or writes mutable rows is one step of a request,   *)
(* so concurrent requests interleave between statements as they do on the  *)
(* server.                                                                 *)
(***************************************************************************)
EXTENDS Integers, Sequences, FiniteSets, Bags, TLC

VARIABLES users, tickets, replies, applications, staffMembers, reqs, response,
          discordIds, guidelines, news, settings, calls, sent, ticks, clients,
          form

vars == <<users, tickets, replies, applications, staffMembers, reqs, response,
          discordIds, guidelines, news, settings, calls, sent, ticks, clients,
          form>>

(***************************************************************************)
(* Bounds                                                                  *)
(***************************************************************************)
MaxInFlight == 2
MaxTickets == 1
MaxReplies == 2
MaxApplications == 2
MaxUsers == 5
MaxGuidelines == 2
MaxStaff == 2
MaxNews == 1
MaxTicks == 2
MaxClients == 2
MaxBeats == 3
MaxLen == 3

(***************************************************************************)
(* Users and principals                                                    *)
(***************************************************************************)
NoRow == "none"
Anonymous == 0

\* the state of the settings table, the status poll, the push channel and
\* the editor form, which the ticket, application, login and content routes leave alone
serviceVars == <<settings, calls, sent, ticks, clients, form>>

\* an editor form with nothing typed into it
EmptyForm == [title |-> <<>>, slug |-> <<>>, by |-> "none"]

\* no setting stored, no poll started, nobody connected
ServiceIdle ==
  /\ settings = <<>>
  /\ calls = EmptyBag
  /\ sent = <<>>
  /\ ticks = 0
  /\ clients = <<>>
  /\ form = EmptyForm

\* users.discordId: discordIds[id] is the Discord identity user id is linked
\* to; a user outside its domain has none
NoLinks == <<>>

\* the user table at start-up: id 1 is the hard-coded administrator, the
\* others are one user of each stored role the handlers distinguish
SeededRoles == <<NoRow, "user", "moderator", "support">>
UserIds == DOMAIN users

\* req.isStaff / requireStaff / createTicketReply: the privileged roles
StaffRoles == {"admin", "moderator", "support"}

\* the synthetic administrator of setupAuth
adminUser == [id |-> 1, role |-> "admin"]

\* passport.deserializeUser: the principal of a request whose session holds id
deserializeUser(id) ==
  IF id = 1 THEN adminUser
  ELSE IF id \in UserIds /\ users[id] # NoRow THEN [id |-> id, role |-> users[id]]
  ELSE [id |-> Anonymous, role |-> NoRow]

\* req.isAuthenticated()
isAuthenticated(id) == deserializeUser(id).id # Anonymous

\* status answered by the isAdmin middleware, 0 when it calls next()
isAdmin(id) ==
  IF ~isAuthenticated(id) THEN 401
  ELSE IF deserializeUser(id).role # "admin" THEN 403
  ELSE 0

\* DatabaseStorage.getUser
getUser(id) == IF id \in UserIds THEN users[id] ELSE NoRow

(***************************************************************************)
(* Tickets                                                                 *)
(***************************************************************************)
\* column default of tickets.status (createTicket does not write the column)
DefaultTicketStatus == "open"

TicketIds == 1..MaxTickets

\* DatabaseStorage.getTicket
ticketExists(t) == t \in DOMAIN tickets

\* DatabaseStorage.updateTicket
updateTicket(t, data) ==
  [tickets EXCEPT ![t] = [f \in DOMAIN tickets[t] |->
      IF f \in DOMAIN data THEN data[f] ELSE tickets[t][f]]]

\* DatabaseStorage.closeTicket
closeTicket(t, userId) ==
  [tickets EXCEPT ![t] = [@ EXCEPT !.status = "closed",
                                   !.closedAt = TRUE,
                                   !.closedBy = userId]]

\* the ownership check with its role comparison turned round
accessDeniedForAdmin(t, id) ==
  tickets[t].userId # id /\ deserializeUser(id).role = "admin"

\* the ownership check of the /api/user/tickets/:id routes
accessDenied(t, id) ==
  tickets[t].userId # id /\ deserializeUser(id).role # "admin"

\* replyData.isStaff of the user reply route
replyIsStaff(id) == deserializeUser(id).role \in {"admin", "moderator"}

(***************************************************************************)
(* Requests in flight                                                      *)
(***************************************************************************)
\* reqs is the bag of requests that are between two database statements
InFlight == BagToSet(reqs)

RoomForRequest == BagCardinality(reqs) < MaxInFlight

Enter(r) == reqs (+) SetToBag({r})

Leave(r) == reqs (-) SetToBag({r})

NoResponse == [op |-> "none", userId |-> 0, code |-> 0]

\* the answer a handler sends: the route, the session it answers and the
\* HTTP status
Respond(op, id, code) == [op |-> op, userId |-> id, code |-> code]

\* replies that requests in flight are still going to insert
PendingInserts ==
  BagCardinality([r \in {x \in InFlight : x.pc \in {"adminUpdate", "insert"}}
                    |-> reqs[r]])

RoomForReply == Len(replies) + PendingInserts < MaxReplies

\* the ticket routes touch no application, roster row, Discord link or
\* guideline
UnchangedApps ==
  UNCHANGED <<applications, staffMembers, discordIds, guidelines, news, serviceVars>>

\* a request answered in its first step
Answer(op, id, code) ==
  /\ response' = Respond(op, id, code)
  /\ UNCHANGED <<users, tickets, replies, reqs>>
  /\ UnchangedApps

\* POST /api/user/tickets
CreateTicket(id, valid) ==
  /\ Len(tickets) < MaxTickets
  /\ IF ~isAuthenticated(id) THEN Answer("create", id, 401)
     ELSE IF ~valid THEN Answer("create", id, 500)
     ELSE /\ tickets' = Append(tickets,
                 [userId |-> id, status |-> DefaultTicketStatus,
                  assignedTo |-> 0, closedBy |-> 0, closedAt |-> FALSE])
          /\ response' = Respond("create", id, 201)
          /\ UNCHANGED <<users, replies, reqs>>
          /\ UnchangedApps

\* GET /api/user/tickets/:id
ViewTicket(id, t) ==
  IF ~isAuthenticated(id) THEN Answer("view", id, 401)
  ELSE IF ~ticketExists(t) THEN Answer("view", id, 404)
  ELSE IF accessDenied(t, id) THEN Answer("view", id, 403)
  ELSE Answer("view", id, 200)

\* POST /api/user/tickets/:id/close
CloseTicket(id, t) ==
  IF ~isAuthenticated(id) THEN Answer("close", id, 401)
  ELSE IF ~ticketExists(t) THEN Answer("close", id, 404)
  ELSE IF accessDenied(t, id) THEN Answer("close", id, 403)
  ELSE /\ tickets' = closeTicket(t, id)
       /\ response' = Respond("close", id, 200)
       /\ UNCHANGED <<users, replies, reqs>>
       /\ UnchangedApps

\* where a request goes once createTicketReply has returned: the user reply
\* route still has its own status update to do when the author is staff and
\* the ticket it read at the start was open
AfterCreateReply(r) ==
  IF r.op = "reply" /\ replyIsStaff(r.userId) /\ r.tStatus = "open"
  THEN "routeUpdate" ELSE "done"

StatusOf(op) == IF op \in {"assign", "patch"} THEN 200 ELSE 201

\* the request r moves on to pc, or is answered when pc is "done"
Continue(r, pc) ==
  IF pc = "done"
  THEN /\ reqs' = Leave(r)
       /\ response' = Respond(r.op, r.userId, StatusOf(r.op))
  ELSE /\ reqs' = Leave(r) (+) SetToBag({[r EXCEPT !.pc = pc]})
       /\ UNCHANGED response

\* POST /api/user/tickets/:id/reply, up to the parsed reply data
UserReply(id, t, valid) ==
  /\ RoomForRequest
  /\ RoomForReply
  /\ IF ~isAuthenticated(id) THEN Answer("reply", id, 401)
     ELSE IF ~ticketExists(t) THEN Answer("reply", id, 404)
     ELSE IF accessDenied(t, id) THEN Answer("reply", id, 403)
     ELSE IF ~valid THEN Answer("reply", id, 500)
     ELSE /\ reqs' = Enter(
                 [op |-> "reply", pc |-> "insert", userId |-> id, tid |-> t,
                  tStatus |-> tickets[t].status])
          /\ UNCHANGED <<users, tickets, replies, response>>
          /\ UnchangedApps

\* PATCH /api/admin/tickets/:id/assign, up to its updateTicket
AssignTicket(id, t) ==
  /\ RoomForRequest
  /\ RoomForReply
  /\ IF isAdmin(id) # 0 THEN Answer("assign", id, isAdmin(id))
     ELSE IF ~ticketExists(t) THEN Answer("assign", id, 404)
     ELSE /\ tickets' = updateTicket(t, [assignedTo |-> id, status |-> "processing"])
          /\ reqs' = Enter(
                 [op |-> "assign", pc |-> "insert", userId |-> id, tid |-> t,
                  tStatus |-> tickets[t].status])
          /\ UNCHANGED <<users, replies, response>>
          /\ UnchangedApps

\* POST /api/admin/tickets/:id/reply, up to its read of the ticket
AdminReply(id, t) ==
  /\ RoomForRequest
  /\ RoomForReply
  /\ IF isAdmin(id) # 0 THEN Answer("adminReply", id, isAdmin(id))
     ELSE IF ~ticketExists(t) THEN Answer("adminReply", id, 404)
     ELSE /\ reqs' = Enter(
                 [op |-> "adminReply",
                  pc |-> IF tickets[t].assignedTo = 0 \/ tickets[t].assignedTo # id
                         THEN "adminUpdate" ELSE "insert",
                  userId |-> id, tid |-> t, tStatus |-> tickets[t].status])
          /\ UNCHANGED <<users, tickets, replies, response>>
          /\ UnchangedApps

\* the admin reply route assigns the ticket to the replying administrator
AdminReplyUpdate(r) ==
  /\ r.pc = "adminUpdate"
  /\ tickets' = updateTicket(r.tid,
                   [assignedTo |-> r.userId, status |-> "processing"])
  /\ reqs' = Leave(r) (+) SetToBag({[r EXCEPT !.pc = "insert"]})
  /\ UNCHANGED <<users, replies, response>>
  /\ UnchangedApps

\* column default of ticket_replies.is_staff and is_system_message
DefaultReplyFlag == FALSE

\* column default of ticket_replies.created_at: the database clock in whole
\* seconds, which has not advanced since the previous insert or has
LastTick == IF replies = <<>> THEN 0 ELSE replies[Len(replies)].createdAt
Now == {LastTick, LastTick + 1}

\* ids of the replies of ticket t
RepliesOf(t) == {i \in DOMAIN replies : replies[i].ticketId = t}

\* DatabaseStorage.getTicketReplies: the rows of the ticket ordered by
\* createdAt alone; the results are the orders the database may return,
\* rows of equal createdAt coming in any order
getTicketReplies(t) ==
  {f \in [1..Cardinality(RepliesOf(t)) -> RepliesOf(t)] :
     \A j, k \in DOMAIN f :
        j < k => /\ f[j] # f[k]
                 /\ replies[f[j]].createdAt <= replies[f[k]].createdAt}

\* DatabaseStorage.createTicketReply: the INSERT names the columns
\* ticket_id, user_id and message only, whatever flags the caller passed
InsertReply(r) ==
  /\ r.pc = "insert"
  /\ \E now \in Now :
        replies' = Append(replies,
          [ticketId |-> r.tid, userId |-> r.userId,
           message |-> IF r.op = "assign" THEN "assumed" ELSE "text",
           isStaff |-> DefaultReplyFlag, isSystemMessage |-> DefaultReplyFlag,
           createdAt |-> now])
  /\ reqs' = Leave(r) (+) SetToBag({[r EXCEPT !.pc = "staffCheck"]})
  /\ UNCHANGED <<users, tickets, response>>
  /\ UnchangedApps

\* DatabaseStorage.createTicketReply: the author's stored role and the
\* ticket's current status decide whether the ticket is updated
StaffCheck(r) ==
  /\ r.pc = "staffCheck"
  /\ IF /\ getUser(r.userId) \in StaffRoles
        /\ ticketExists(r.tid)
        /\ tickets[r.tid].status = "open"
     THEN Continue(r, "staffUpdate")
     ELSE Continue(r, AfterCreateReply(r))
  /\ UNCHANGED <<users, tickets, replies>>
  /\ UnchangedApps

\* DatabaseStorage.createTicketReply: the update of the ticket
StaffUpdate(r) ==
  /\ r.pc = "staffUpdate"
  /\ tickets' = updateTicket(r.tid,
                   [status |-> "in_progress", assignedTo |-> r.userId])
  /\ Continue(r, AfterCreateReply(r))
  /\ UNCHANGED <<users, replies>>
  /\ UnchangedApps

\* the user reply route moves the ticket it read as open to processing
RouteUpdate(r) ==
  /\ r.pc = "routeUpdate"
  /\ tickets' = updateTicket(r.tid, [status |-> "processing"])
  /\ Continue(r, "done")
  /\ UNCHANGED <<users, replies>>
  /\ UnchangedApps

\* GET /api/admin/server-stats: registered without middleware; it reads the
\* saved statistics and answers 200 (an empty list when the read throws)
ServerStats(id) ==
  /\ response' = Respond("serverStats", id, 200)
  /\ UNCHANGED <<users, tickets, replies, reqs>>
  /\ UnchangedApps

TicketInit ==
  /\ users = SeededRoles
  /\ discordIds = NoLinks
  /\ guidelines = <<>>
  /\ news = <<>>
  /\ ServiceIdle
  /\ tickets = <<>>
  /\ replies = <<>>
  /\ applications = <<>>
  /\ staffMembers = EmptyBag
  /\ reqs = EmptyBag
  /\ response = NoResponse

TicketNext ==
  \/ \E id \in UserIds \cup {Anonymous}, valid \in BOOLEAN : CreateTicket(id, valid)
  \/ \E id \in UserIds \cup {Anonymous}, t \in TicketIds : ViewTicket(id, t)
  \/ \E id \in UserIds \cup {Anonymous}, t \in TicketIds : CloseTicket(id, t)
  \/ \E id \in UserIds \cup {Anonymous}, t \in TicketIds,
        valid \in BOOLEAN : UserReply(id, t, valid)
  \/ \E id \in UserIds \cup {Anonymous}, t \in TicketIds :
        AssignTicket(id, t)
  \/ \E id \in UserIds \cup {Anonymous}, t \in TicketIds :
        AdminReply(id, t)
  \/ \E r \in InFlight : AdminReplyUpdate(r)
  \/ \E r \in InFlight : InsertReply(r)
  \/ \E r \in InFlight : StaffCheck(r)
  \/ \E r \in InFlight : StaffUpdate(r)
  \/ \E r \in InFlight : RouteUpdate(r)
  \/ \E id \in UserIds \cup {Anonymous} : ServerStats(id)

Spec == TicketInit /\ [][TicketNext]_vars

(***************************************************************************)
(* Properties of the ticket workflow, checked under Spec                   *)
(***************************************************************************)
\* a reply request leaves the server with its 201
Returns(r) ==
  /\ reqs' = Leave(r)
  /\ response' = Respond(r.op, r.userId, 201)

\* a request is turned away with 403 and touches nothing
Refused(op, id) ==
  /\ response' = Respond(op, id, 403)
  /\ UNCHANGED <<users, tickets, replies, reqs>>

\* id is authenticated, does not own ticket t and holds no privileged role
Outsider(id, t) ==
  /\ isAuthenticated(id)
  /\ tickets[t].userId # id
  /\ deserializeUser(id).role \notin StaffRoles

\* id holds a privileged role and does not own ticket t
StaffVisitor(id, t) ==
  /\ deserializeUser(id).role \in StaffRoles
  /\ tickets[t].userId # id

\* C1: a reply submitted through the user or the admin reply route once the
\* ticket is closed (the route read the ticket as closed) is never added to
\* the reply log
C1_NoReplyOnceClosed ==
  [][\A r \in InFlight :
        (r.op \in {"reply", "adminReply"} /\ r.tStatus = "closed")
          => ~InsertReply(r)]_vars

\* C2: a ticket whose status is closed is closed in every later state
C2_ClosedIsTerminal ==
  [][\A t \in DOMAIN tickets :
        tickets[t].status = "closed" => tickets'[t].status = "closed"]_vars

\* C3: when a reply by a principal of a privileged role to a ticket that the
\* route read as open returns, the ticket's status is processing
C3_StaffReplyLeavesProcessing ==
  [][\A r \in InFlight :
        ( /\ r.op \in {"reply", "adminReply"}
          /\ r.tStatus = "open"
          /\ deserializeUser(r.userId).role \in StaffRoles
          /\ Returns(r) )
          => tickets'[r.tid].status = "processing"]_vars

\* C4: a reply, close or view request by an authenticated actor who neither
\* owns the ticket nor holds a privileged role is answered 403 and leaves
\* the ticket and the reply log as they were
C4_OutsiderRefused ==
  [][\A id \in UserIds, t \in DOMAIN tickets :
        Outsider(id, t) =>
          /\ \A valid \in BOOLEAN :
                UserReply(id, t, valid) => Refused("reply", id)
          /\ AdminReply(id, t) => Refused("adminReply", id)
          /\ CloseTicket(id, t) => Refused("close", id)
          /\ ViewTicket(id, t) => Refused("view", id)]_vars

\* C4 witness: a user who is not the owner has been answered 403
C4_Witness ==
  /\ response.code = 403
  /\ response.op \in {"reply", "close", "view"}
  /\ getUser(response.userId) = "user"
  /\ \E t \in DOMAIN tickets : tickets[t].userId # response.userId

\* C5: a reply, close or view request by an admin, a moderator or a support
\* member on a ticket of somebody else is not turned away with 403
C5_StaffAdmitted ==
  [][\A id \in UserIds, t \in DOMAIN tickets :
        StaffVisitor(id, t) =>
          /\ \A valid \in BOOLEAN :
                UserReply(id, t, valid) => ~Refused("reply", id)
          /\ CloseTicket(id, t) => ~Refused("close", id)
          /\ ViewTicket(id, t) => ~Refused("view", id)]_vars

(***************************************************************************)
(* Staff applications                                                      *)
(***************************************************************************)
\* the user table the application workflow starts from
SeededApplicants == <<NoRow, "user", "moderator">>

\* column default of staff_applications.status (the handler that serves
\* POST /api/applications does not write the column)
DefaultApplicationStatus == "pending"

ApplicationIds == 1..MaxApplications

\* the status a legacy PUT carries: any of the three, or none at all
PutStatuses == {"pending", "approved", "rejected", "undefined"}

\* DatabaseStorage.getStaffApplication
applicationExists(a) == a \in DOMAIN applications

\* DatabaseStorage.updateStaffApplication
updateStaffApplication(a, data) ==
  [applications EXCEPT ![a] = [f \in DOMAIN applications[a] |->
      IF f \in DOMAIN data THEN data[f] ELSE applications[a][f]]]

\* DatabaseStorage.getStaffMemberByUserId
getStaffMemberByUserId(userId) ==
  {m \in BagToSet(staffMembers) : userId # 0 /\ m.userId = userId}

\* DatabaseStorage.createStaffMember
createStaffMember(member) == staffMembers (+) SetToBag({member})

\* DatabaseStorage.updateUser
updateUser(id, role) ==
  IF id \in UserIds /\ users[id] # NoRow THEN [users EXCEPT ![id] = role] ELSE users

\* the application routes touch no ticket, reply, Discord link or guideline
UnchangedTickets ==
  UNCHANGED <<tickets, replies, discordIds, guidelines, news, serviceVars>>

\* POST /api/applications: the handler registered first (line 599) answers
\* every request, so the one registered later for the same path never runs
SubmitApplication(id, valid) ==
  /\ Len(applications) < MaxApplications
  /\ IF ~valid THEN Answer("submit", id, 400)
     ELSE /\ applications' = Append(applications,
                 [userId |-> deserializeUser(id).id,
                  status |-> DefaultApplicationStatus, reviewedBy |-> 0])
          /\ response' = Respond("submit", id, 200)
          /\ UNCHANGED <<users, staffMembers, reqs>>
          /\ UnchangedTickets

\* existingApplications.some(app => app.status === "pending")
hasPendingApplication(id) ==
  \E a \in DOMAIN applications :
     applications[a].userId = id /\ applications[a].status = "pending"

\* applications submitted by requests in flight and not yet inserted
PendingSubmits ==
  BagCardinality([r \in {x \in InFlight : x.pc = "createApplication"} |-> reqs[r]])

\* POST /api/applications as registered later (line 1671), up to its read of
\* the user's applications; the handler of line 599 keeps it from running
SubmitGuarded(id) ==
  /\ RoomForRequest
  /\ Len(applications) + PendingSubmits < MaxApplications
  /\ IF ~isAuthenticated(id) THEN Answer("submit", id, 401)
     ELSE IF hasPendingApplication(id) THEN Answer("submit", id, 400)
     ELSE /\ reqs' = Enter([op |-> "submit", pc |-> "createApplication",
                            userId |-> id, tid |-> 0, tStatus |-> "none"])
          /\ UNCHANGED <<users, applications, staffMembers, response>>
          /\ UnchangedTickets

\* the later handler's createStaffApplication
CreateApplication(r) ==
  /\ r.pc = "createApplication"
  /\ applications' = Append(applications,
        [userId |-> r.userId, status |-> "pending", reviewedBy |-> 0])
  /\ reqs' = Leave(r)
  /\ response' = Respond("submit", r.userId, 201)
  /\ UNCHANGED <<users, staffMembers>>
  /\ UnchangedTickets

\* an admin route that is one updateStaffApplication
ReviewApplication(op, id, a, data) ==
  IF isAdmin(id) # 0 THEN Answer(op, id, isAdmin(id))
  ELSE IF ~applicationExists(a) THEN Answer(op, id, 404)
  ELSE /\ applications' = updateStaffApplication(a, data)
       /\ response' = Respond(op, id, 200)
       /\ UNCHANGED <<users, staffMembers, reqs>>
       /\ UnchangedTickets

\* PATCH /api/admin/applications/:id/notes
NoteApplication(id, a) == ReviewApplication("notes", id, a, <<>>)

\* PATCH /api/admin/applications/:id/approve
ApproveApplication(id, a) ==
  ReviewApplication("approve", id, a, [status |-> "approved", reviewedBy |-> id])

\* PATCH /api/admin/applications/:id/reject
RejectApplication(id, a) ==
  ReviewApplication("reject", id, a, [status |-> "rejected", reviewedBy |-> id])

\* PUT /api/admin/applications/:id; a body without status leaves the column
\* alone, and the answer is labelled apart to tell the two requests apart
PutApplication(id, a, status) ==
  IF status = "undefined"
  THEN ReviewApplication("putNoStatus", id, a, [reviewedBy |-> id])
  ELSE ReviewApplication("put", id, a, [status |-> status, reviewedBy |-> id])

\* PATCH /api/admin/applications/:id, up to its updateStaffApplication
PatchApplication(id, a, status) ==
  /\ RoomForRequest
  /\ IF isAdmin(id) # 0 THEN Answer("patch", id, isAdmin(id))
     ELSE IF status \notin {"approved", "rejected", "pending"}
          THEN Answer("patch", id, 400)
     ELSE IF ~applicationExists(a) THEN Answer("patch", id, 404)
     ELSE /\ applications' =
               updateStaffApplication(a, [status |-> status, reviewedBy |-> id])
          /\ IF status = "approved"
             THEN /\ reqs' = Enter([op |-> "patch", pc |-> "memberCheck",
                                    userId |-> id, tid |-> a,
                                    tStatus |-> "none"])
                  /\ UNCHANGED response
             ELSE /\ response' = Respond("patch", id, 200)
                  /\ UNCHANGED reqs
          /\ UNCHANGED <<users, staffMembers>>
          /\ UnchangedTickets

\* the approval looks for a roster row of the applicant and for the user row
MemberCheck(r) ==
  /\ r.pc = "memberCheck"
  /\ IF /\ getStaffMemberByUserId(applications[r.tid].userId) = {}
        /\ getUser(applications[r.tid].userId) # NoRow
     THEN Continue(r, "createMember")
     ELSE Continue(r, "done")
  /\ UNCHANGED <<users, applications, staffMembers>>
  /\ UnchangedTickets

\* the approval adds the applicant to the roster
CreateMember(r) ==
  /\ r.pc = "createMember"
  /\ staffMembers' = createStaffMember(
        [userId |-> applications[r.tid].userId, role |-> "moderator"])
  /\ Continue(r, "updateRole")
  /\ UNCHANGED <<users, applications>>
  /\ UnchangedTickets

\* the approval sets the applicant's role
UpdateRole(r) ==
  /\ r.pc = "updateRole"
  /\ users' = updateUser(applications[r.tid].userId, "moderator")
  /\ Continue(r, "done")
  /\ UNCHANGED <<applications, staffMembers>>
  /\ UnchangedTickets

ApplicationInit ==
  /\ users = SeededApplicants
  /\ discordIds = NoLinks
  /\ guidelines = <<>>
  /\ news = <<>>
  /\ ServiceIdle
  /\ tickets = <<>>
  /\ replies = <<>>
  /\ applications = <<>>
  /\ staffMembers = EmptyBag
  /\ reqs = EmptyBag
  /\ response = NoResponse

\* the admin routes over applications
ReviewNext ==
  \/ \E id \in UserIds \cup {Anonymous}, a \in ApplicationIds : NoteApplication(id, a)
  \/ \E id \in UserIds \cup {Anonymous}, a \in ApplicationIds : ApproveApplication(id, a)
  \/ \E id \in UserIds \cup {Anonymous}, a \in ApplicationIds : RejectApplication(id, a)
  \/ \E id \in UserIds \cup {Anonymous}, a \in ApplicationIds, status \in PutStatuses :
        PutApplication(id, a, status)
  \/ \E id \in UserIds \cup {Anonymous}, a \in ApplicationIds,
        status \in PutStatuses \cup {"other"} : PatchApplication(id, a, status)
  \/ \E r \in InFlight : MemberCheck(r)
  \/ \E r \in InFlight : CreateMember(r)
  \/ \E r \in InFlight : UpdateRole(r)

ApplicationNext ==
  \/ \E id \in UserIds \cup {Anonymous}, valid \in BOOLEAN : SubmitApplication(id, valid)
  \/ ReviewNext

\* the server with only the later POST /api/applications handler registered
GuardedNext ==
  \/ \E id \in UserIds \cup {Anonymous} : SubmitGuarded(id)
  \/ \E r \in InFlight : CreateApplication(r)
  \/ ReviewNext

SpecApplications == ApplicationInit /\ [][ApplicationNext]_vars

SpecGuardedSubmit == ApplicationInit /\ [][GuardedNext]_vars

\* the catch block of PATCH /api/admin/applications/:id: createStaffMember
\* or updateUser throws, the request is answered 500 and nothing is undone
ApprovalFails(r) ==
  /\ r.op = "patch"
  /\ r.pc \in {"createMember", "updateRole"}
  /\ reqs' = Leave(r)
  /\ response' = Respond("patch", r.userId, 500)
  /\ UNCHANGED <<users, applications, staffMembers>>
  /\ UnchangedTickets

\* the application routes over a store whose statements may throw
FailingNext ==
  \/ ApplicationNext
  \/ \E r \in InFlight : ApprovalFails(r)

SpecFailingStore == ApplicationInit /\ [][FailingNext]_vars

\* a user table with a second administrator: id 1 is the hard-coded one,
\* id 2 a stored user of role admin
SeededReviewers == <<NoRow, "admin">>

ReviewerInit ==
  /\ users = SeededReviewers
  /\ discordIds = NoLinks
  /\ guidelines = <<>>
  /\ news = <<>>
  /\ ServiceIdle
  /\ tickets = <<>>
  /\ replies = <<>>
  /\ applications = <<>>
  /\ staffMembers = EmptyBag
  /\ reqs = EmptyBag
  /\ response = NoResponse

SpecReviewers == ReviewerInit /\ [][ApplicationNext]_vars

(***************************************************************************)
(* Discord login                                                           *)
(***************************************************************************)
\* the Discord identities that log in
DiscordProfiles == {"d1", "d2"}

\* a user provisioned through Discord earlier and promoted since
SeededLinked == <<NoRow, "moderator">>

\* DatabaseStorage.getUserByDiscordId: the rows with that identity
getUserByDiscordId(d) == {id \in DOMAIN discordIds : discordIds[id] = d}

\* results[0] of the lookup
firstRow(rows) == CHOOSE id \in rows : \A other \in rows : id <= other

\* the new row with the role of a different default
createUserAsModerator(d) == Append(users, "moderator")

\* DatabaseStorage.createUser with the values of the callback: role "user"
createUser(d) == Append(users, "user")

\* GET /api/auth/discord/callback (and the DiscordStrategy verify function,
\* which takes the same steps), up to the lookup of the identity
DiscordLogin(via, d, ok) ==
  /\ RoomForRequest
  /\ Len(users) + BagCardinality(reqs) < MaxUsers
  /\ IF ~ok THEN /\ response' = Respond(via, Anonymous, 302)
                 /\ UNCHANGED <<users, reqs, discordIds>>
     ELSE /\ reqs' = Enter(
                 IF getUserByDiscordId(d) = {}
                 THEN [op |-> via, pc |-> "createUser", userId |-> Anonymous,
                       tid |-> 0, tStatus |-> d]
                 ELSE [op |-> via, pc |-> "updateProfile",
                       userId |-> firstRow(getUserByDiscordId(d)),
                       tid |-> 0, tStatus |-> d])
          /\ UNCHANGED <<users, response, discordIds>>
  /\ UNCHANGED <<tickets, replies, applications, staffMembers, guidelines, news,
               serviceVars>>

\* the login inserts the user of an identity it did not find
CreateUser(r) ==
  /\ r.pc = "createUser"
  /\ users' = createUser(r.tStatus)
  /\ discordIds' = discordIds @@ (Len(users) + 1 :> r.tStatus)
  /\ reqs' = Leave(r)
  /\ response' = Respond(r.op, Len(users) + 1, 302)
  /\ UNCHANGED <<tickets, replies, applications, staffMembers, guidelines, news,
               serviceVars>>

\* the login refreshes discordUsername and avatar of the user it found
UpdateProfile(r) ==
  /\ r.pc = "updateProfile"
  /\ reqs' = Leave(r)
  /\ response' = Respond(r.op, r.userId, 302)
  /\ UNCHANGED <<users, discordIds, tickets, replies, applications, staffMembers,
               guidelines, news, serviceVars>>

LoginInit ==
  /\ users = SeededLinked
  /\ discordIds = (2 :> "d1")
  /\ guidelines = <<>>
  /\ news = <<>>
  /\ ServiceIdle
  /\ tickets = <<>>
  /\ replies = <<>>
  /\ applications = <<>>
  /\ staffMembers = EmptyBag
  /\ reqs = EmptyBag
  /\ response = NoResponse

LoginNext ==
  \/ \E via \in {"callback", "strategy"}, d \in DiscordProfiles, ok \in BOOLEAN :
        DiscordLogin(via, d, ok)
  \/ \E r \in InFlight : CreateUser(r)
  \/ \E r \in InFlight : UpdateProfile(r)

SpecLogin == LoginInit /\ [][LoginNext]_vars

(***************************************************************************)
(* Guidelines and the public staff list                                    *)
(***************************************************************************)
\* the users of the content routes: the hard-coded admin and one plain user
SeededVisitors == <<NoRow, "user">>

GuidelineIds == 1..MaxGuidelines

\* DatabaseStorage.getGuideline / getGuidelineBySlug: the row, if it is there
\* a deleted row keeps its id, so that later rows get fresh ones
guidelineExists(g) == g \in DOMAIN guidelines /\ ~guidelines[g].deleted

\* DatabaseStorage.getGuidelines
getGuidelines(publishedOnly) ==
  {g \in DOMAIN guidelines :
     guidelineExists(g) /\ (publishedOnly => guidelines[g].isPublished)}

\* DatabaseStorage.getStaffMembers
getStaffMembers(activeOnly) ==
  {m \in BagToSet(staffMembers) : activeOnly => m.isActive}

\* an answer that carries rows
RespondWith(op, id, code, rows) ==
  [op |-> op, userId |-> id, code |-> code, rows |-> rows]

UnchangedRest ==
  UNCHANGED <<users, tickets, replies, applications, reqs, discordIds, serviceVars>>

\* POST /api/admin/guidelines
CreateGuideline(id, isPublished) ==
  /\ Len(guidelines) < MaxGuidelines
  /\ IF isAdmin(id) # 0
     THEN response' = Respond("createGuideline", id, isAdmin(id))
          /\ UNCHANGED guidelines
     ELSE /\ guidelines' = Append(guidelines, [isPublished |-> isPublished, deleted |-> FALSE])
          /\ response' = Respond("createGuideline", id, 201)
  /\ UNCHANGED <<staffMembers, news>>
  /\ UnchangedRest

\* PUT /api/admin/guidelines/:id
UpdateGuideline(id, g, isPublished) ==
  /\ IF isAdmin(id) # 0
     THEN response' = Respond("updateGuideline", id, isAdmin(id))
          /\ UNCHANGED guidelines
     ELSE IF ~guidelineExists(g)
     THEN response' = Respond("updateGuideline", id, 404)
          /\ UNCHANGED guidelines
     ELSE /\ guidelines' = [guidelines EXCEPT ![g].isPublished = isPublished]
          /\ response' = Respond("updateGuideline", id, 200)
  /\ UNCHANGED <<staffMembers, news>>
  /\ UnchangedRest

\* DELETE /api/admin/guidelines/:id: deleteGuideline reports success whenever
\* no row with the id is left, so a missing row is answered 200 as well
DeleteGuideline(id, g) ==
  /\ IF isAdmin(id) # 0
     THEN response' = Respond("deleteGuideline", id, isAdmin(id))
          /\ UNCHANGED guidelines
     ELSE /\ guidelines' = IF g \in DOMAIN guidelines
                           THEN [guidelines EXCEPT ![g].deleted = TRUE] ELSE guidelines
          /\ response' = Respond("deleteGuideline", id, 200)
  /\ UNCHANGED <<staffMembers, news>>
  /\ UnchangedRest

\* GET /api/guidelines: publishedOnly is false only for ?publishedOnly=false
ListGuidelines(id, publishedOnly) ==
  /\ response' = RespondWith("guidelines", id, 200, getGuidelines(publishedOnly))
  /\ UNCHANGED <<guidelines, staffMembers, news>>
  /\ UnchangedRest

\* GET /api/guidelines/:id and GET /api/guidelines/slug/:slug
GetGuideline(op, id, g) ==
  /\ IF guidelineExists(g)
     THEN response' = RespondWith(op, id, 200, {g})
     ELSE response' = RespondWith(op, id, 404, {})
  /\ UNCHANGED <<guidelines, staffMembers, news>>
  /\ UnchangedRest

\* POST /api/admin/staff
AddStaff(id, isActive) ==
  /\ BagCardinality(staffMembers) < MaxStaff
  /\ IF isAdmin(id) # 0
     THEN response' = Respond("addStaff", id, isAdmin(id))
          /\ UNCHANGED staffMembers
     ELSE /\ staffMembers' = createStaffMember(
                [userId |-> Anonymous, role |-> "moderator", isActive |-> isActive])
          /\ response' = Respond("addStaff", id, 200)
  /\ UNCHANGED <<guidelines, news>>
  /\ UnchangedRest

\* GET /api/staff
ListStaff(id) ==
  /\ response' = RespondWith("staff", id, 200, getStaffMembers(TRUE))
  /\ UNCHANGED <<guidelines, staffMembers, news>>
  /\ UnchangedRest

\* GET /api/admin/staff
ListStaffAdmin(id) ==
  /\ IF isAdmin(id) # 0
     THEN response' = Respond("adminStaff", id, isAdmin(id))
     ELSE response' = RespondWith("adminStaff", id, 200, getStaffMembers(FALSE))
  /\ UNCHANGED <<guidelines, staffMembers, news>>
  /\ UnchangedRest

\* DatabaseStorage.getNews: a deleted row keeps its id
newsExists(n) == n \in DOMAIN news /\ ~news[n].deleted

NewsIds == 1..MaxNews + 1

\* POST /api/admin/news
CreateNews(id, published) ==
  /\ Len(news) < MaxNews
  /\ IF isAdmin(id) # 0
     THEN response' = Respond("createNews", id, isAdmin(id))
          /\ UNCHANGED news
     ELSE /\ news' = Append(news, [published |-> published, deleted |-> FALSE])
          /\ response' = Respond("createNews", id, 200)
  /\ UNCHANGED <<guidelines, staffMembers>>
  /\ UnchangedRest

\* PUT /api/admin/news/:id: updateNews runs the UPDATE and reads the row back
UpdateNews(id, n, published) ==
  /\ IF isAdmin(id) # 0
     THEN response' = Respond("updateNews", id, isAdmin(id))
          /\ UNCHANGED news
     ELSE IF ~newsExists(n)
     THEN response' = Respond("updateNews", id, 404)
          /\ UNCHANGED news
     ELSE /\ news' = [news EXCEPT ![n].published = published]
          /\ response' = Respond("updateNews", id, 200)
  /\ UNCHANGED <<guidelines, staffMembers>>
  /\ UnchangedRest

\* DELETE /api/admin/news/:id: deleteNews runs the DELETE and reports
\* success when a read of the id finds no row (check.length === 0)
DeleteNews(id, n) ==
  /\ IF isAdmin(id) # 0
     THEN response' = Respond("deleteNews", id, isAdmin(id))
          /\ UNCHANGED news
     ELSE /\ news' = IF n \in DOMAIN news
                     THEN [news EXCEPT ![n].deleted = TRUE] ELSE news
          /\ response' = Respond("deleteNews", id, IF ~newsExists(n)' THEN 200 ELSE 404)
  /\ UNCHANGED <<guidelines, staffMembers>>
  /\ UnchangedRest

\* GET /api/news/:slug
GetNews(id, n) ==
  /\ IF newsExists(n)
     THEN response' = RespondWith("news", id, 200, {n})
     ELSE response' = RespondWith("news", id, 404, {})
  /\ UNCHANGED <<guidelines, staffMembers, news>>
  /\ UnchangedRest

ContentInit ==
  /\ users = SeededVisitors
  /\ discordIds = NoLinks
  /\ guidelines = <<>>
  /\ news = <<>>
  /\ ServiceIdle
  /\ tickets = <<>>
  /\ replies = <<>>
  /\ applications = <<>>
  /\ staffMembers = EmptyBag
  /\ reqs = EmptyBag
  /\ response = NoResponse

ContentNext ==
  \/ \E id \in UserIds \cup {Anonymous}, isPublished \in BOOLEAN :
        CreateGuideline(id, isPublished)
  \/ \E id \in UserIds \cup {Anonymous}, g \in GuidelineIds, isPublished \in BOOLEAN :
        UpdateGuideline(id, g, isPublished)
  \/ \E id \in UserIds \cup {Anonymous}, g \in GuidelineIds : DeleteGuideline(id, g)
  \/ \E id \in UserIds \cup {Anonymous}, publishedOnly \in BOOLEAN :
        ListGuidelines(id, publishedOnly)
  \/ \E op \in {"guideline", "guidelineBySlug"}, id \in UserIds \cup {Anonymous},
        g \in GuidelineIds : GetGuideline(op, id, g)
  \/ \E id \in UserIds \cup {Anonymous}, isActive \in BOOLEAN : AddStaff(id, isActive)
  \/ \E id \in UserIds \cup {Anonymous} : ListStaff(id)
  \/ \E id \in UserIds \cup {Anonymous} : ListStaffAdmin(id)
  \/ \E id \in UserIds \cup {Anonymous}, published \in BOOLEAN : CreateNews(id, published)
  \/ \E id \in UserIds \cup {Anonymous}, n \in NewsIds, published \in BOOLEAN :
        UpdateNews(id, n, published)
  \/ \E id \in UserIds \cup {Anonymous}, n \in NewsIds : DeleteNews(id, n)
  \/ \E id \in UserIds \cup {Anonymous}, n \in NewsIds : GetNews(id, n)

SpecContent == ContentInit /\ [][ContentNext]_vars

(***************************************************************************)
(* Settings, the status poll and the push channel                          *)
(***************************************************************************)
\* everything the settings routes, the poll and the push channel leave alone
UnchangedStore ==
  UNCHANGED <<users, tickets, replies, applications, staffMembers, reqs,
              discordIds, guidelines, news, form>>

\* the setting the poll keeps its last snapshot in, the setting its fallback
\* record reads, and the appearance setting of user 2
StatsKey == "last_server_stats"
OnlineKey == "server_online"
AppearanceKey(id) == IF id = 1 THEN "appearance_1" ELSE "appearance_2"

\* a text that is not JSON, and the absence of a value
NoValue == [text |-> "none"]

\* JSON.stringify of an object
stringify(obj) == [json |-> obj]

\* JSON.parse answers an object that stats.cached can be set on: the value is
\* the text of an object (any other text makes the try block throw)
parses(v) == "json" \in DOMAIN v

\* JSON.parse
parse(v) == v.json

\* what an administrator writes through PUT /api/admin/settings/:key: a
\* note in place of the last snapshot, and the switch the fallback reads
AdminWrites ==
  {[key |-> StatsKey, value |-> [text |-> "maintenance"]],
   [key |-> OnlineKey, value |-> [text |-> "true"]]}

\* the player counts the game server reports
Players == {1, 2}

\* the stats of a successful fetch
LiveStats(p) ==
  [online |-> TRUE, players |-> p, cached |-> "absent", error |-> "none"]

\* the record built when no snapshot can be used
Unavailable(isOnline) ==
  [online |-> isOnline, players |-> 0, cached |-> "false",
   error |-> "Servidor indisponivel"]

\* the record of the outer catch block
InternalError ==
  [online |-> FALSE, players |-> 0, cached |-> "absent", error |-> "Erro interno"]

\* the sessions of the self-service routes: the stored user 2, and the
\* hard-coded administrator who reviews
Members == {2}
Reviewers == {1}

\* what a user saves as appearance
Themes == {"dark", "light"}

\* whether the settings table declares its key column unique: the table is
\* described as a generic key/value/category table, with no such constraint
SettingKeyUnique == FALSE

\* the rows of the settings table that carry the key
rowsOf(key) == {i \in DOMAIN settings : settings[i].key = key}

\* DatabaseStorage.getSetting: results[0] of a SELECT without ORDER BY is any
\* of the rows that carry the key
getSetting(key) == rowsOf(key)

\* the UPDATE of upsertSetting
updateSetting(key, value) ==
  [i \in DOMAIN settings |->
     IF settings[i].key = key THEN [settings[i] EXCEPT !.value = value]
     ELSE settings[i]]

\* the INSERT of upsertSetting
insertSetting(key, value) == Append(settings, [key |-> key, value |-> value])

\* calls is the bag of activities that are between two awaited statements:
\* runs of updateServerStats and requests of the settings routes
Running == BagToSet(calls)

RoomForCall == BagCardinality(calls) < MaxInFlight

\* the call c goes on at pc
Goto(c, pc) == calls' = (calls (-) SetToBag({c})) (+) SetToBag({[c EXCEPT !.pc = pc]})

\* the call c is over
Done(c) == calls' = calls (-) SetToBag({c})

\* the subscribers broadcastUpdate sends to: the members of the clients set
\* whose readyState is OPEN
OpenClients == {i \in DOMAIN clients : clients[i].state = "open"}

\* broadcastUpdate, as the last thing run c does
Broadcast(c, snap) ==
  /\ sent' = Append(sent, [run |-> c.id, snap |-> snap, to |-> OpenClients])
  /\ Done(c)

\* setInterval(updateServerStats, 30000) and the call at start-up: a run
\* starts whatever the runs before it are doing
Tick ==
  /\ ticks < MaxTicks
  /\ RoomForCall
  /\ ticks' = ticks + 1
  /\ calls' = calls (+) SetToBag({[op |-> "poll", pc |-> "fetch", id |-> ticks + 1,
                                   key |-> StatsKey, value |-> NoValue]})
  /\ UNCHANGED <<settings, sent, clients, response>>
  /\ UnchangedStore

\* the three fetches of a run under the 3 s abort timer: they give the stats,
\* or one of them fails or is aborted
Fetch(c, ok, p) ==
  /\ c.op = "poll" /\ c.pc = "fetch"
  /\ IF ok
     THEN calls' = (calls (-) SetToBag({c})) (+)
                   SetToBag({[c EXCEPT !.pc = "upsertRead",
                                       !.value = stringify(LiveStats(p))]})
     ELSE Goto(c, "getCached")
  /\ UNCHANGED <<settings, sent, ticks, clients, response>>
  /\ UnchangedStore

\* PUT /api/admin/settings/:key, up to its call of upsertSetting
PutSetting(id, key, value, valid) ==
  /\ RoomForCall
  /\ IF isAdmin(id) # 0
     THEN response' = Respond("putSetting", id, isAdmin(id)) /\ UNCHANGED calls
     ELSE IF ~valid
     THEN response' = Respond("putSetting", id, 400) /\ UNCHANGED calls
     ELSE /\ calls' = calls (+) SetToBag({[op |-> "putSetting", pc |-> "upsertRead",
                                           id |-> id, key |-> key, value |-> value]})
          /\ UNCHANGED response
  /\ UNCHANGED <<settings, sent, ticks, clients>>
  /\ UnchangedStore

\* PATCH /api/user/settings/appearance, up to its call of upsertSetting
Appearance(id, body) ==
  /\ RoomForCall
  /\ IF ~isAuthenticated(id)
     THEN response' = Respond("appearance", id, 401) /\ UNCHANGED calls
     ELSE /\ calls' = calls (+) SetToBag({[op |-> "appearance", pc |-> "upsertRead",
                                           id |-> id, key |-> AppearanceKey(id),
                                           value |-> stringify(body)]})
          /\ UNCHANGED response
  /\ UNCHANGED <<settings, sent, ticks, clients>>
  /\ UnchangedStore

\* upsertSetting: the SELECT that decides between UPDATE and INSERT
UpsertRead(c) ==
  /\ c.pc = "upsertRead"
  /\ Goto(c, IF rowsOf(c.key) # {} THEN "upsertUpdate" ELSE "upsertInsert")
  /\ UNCHANGED <<settings, sent, ticks, clients, response>>
  /\ UnchangedStore

\* upsertSetting: the UPDATE of the rows that carry the key
UpsertUpdate(c) ==
  /\ c.pc = "upsertUpdate"
  /\ settings' = updateSetting(c.key, c.value)
  /\ Goto(c, "upsertReadBack")
  /\ UNCHANGED <<sent, ticks, clients, response>>
  /\ UnchangedStore

\* upsertSetting: the INSERT of a new row; under a unique key it throws when
\* a row with the key is there by now, which ends a route with 500 and sends
\* a run of the poll to its catch (fetchError) block
UpsertInsert(c) ==
  /\ c.pc = "upsertInsert"
  /\ IF SettingKeyUnique /\ rowsOf(c.key) # {}
     THEN /\ UNCHANGED settings
          /\ IF c.op # "poll"
             THEN Done(c) /\ response' = Respond(c.op, c.id, 500)
             ELSE Goto(c, "getCached") /\ UNCHANGED response
     ELSE /\ settings' = insertSetting(c.key, c.value)
          /\ Goto(c, "upsertReadBack")
          /\ UNCHANGED response
  /\ UNCHANGED <<sent, ticks, clients>>
  /\ UnchangedStore

\* upsertSetting reads the row back and returns: the run broadcasts the
\* stats it fetched, a route answers 200
UpsertReturn(c) ==
  /\ c.pc = "upsertReadBack"
  /\ IF c.op = "poll"
     THEN Broadcast(c, parse(c.value)) /\ UNCHANGED response
     ELSE Done(c) /\ response' = Respond(c.op, c.id, 200) /\ UNCHANGED sent
  /\ UNCHANGED <<settings, ticks, clients>>
  /\ UnchangedStore

\* the catch (fetchError) block: the run reads the last snapshot and, when
\* the row has a value that parses, broadcasts it marked cached
GetCached(c) ==
  /\ c.pc = "getCached"
  /\ IF getSetting(StatsKey) = {}
     THEN Goto(c, "fallback") /\ UNCHANGED sent
     ELSE \E i \in getSetting(StatsKey) :
            IF parses(settings[i].value)
            THEN Broadcast(c, [parse(settings[i].value) EXCEPT !.cached = "true"])
            ELSE Goto(c, "fallback") /\ UNCHANGED sent
  /\ UNCHANGED <<settings, ticks, clients, response>>
  /\ UnchangedStore

\* the fallback record: server_online is read through a helper that answers
\* 'false' when the read throws (read tells whether it succeeded);
\* server_name and server_max_players are read the same way
Fallback(c, read) ==
  /\ c.pc = "fallback"
  /\ \/ /\ read /\ getSetting(OnlineKey) # {}
        /\ \E i \in getSetting(OnlineKey) :
              Broadcast(c, Unavailable(settings[i].value = [text |-> "true"]))
     \/ /\ ~read \/ getSetting(OnlineKey) = {}
        /\ Broadcast(c, Unavailable(FALSE))
  /\ UNCHANGED <<settings, ticks, clients, response>>
  /\ UnchangedStore

\* the same with no outer catch block: a throw at the read of the last
\* snapshot ends the run
StoreThrowsUncaught(c) ==
  /\ c.pc \in {"upsertRead", "upsertUpdate", "upsertInsert", "upsertReadBack",
               "getCached"}
  /\ IF c.op # "poll"
     THEN Done(c) /\ response' = Respond(c.op, c.id, 500) /\ UNCHANGED sent
     ELSE IF c.pc = "getCached"
     THEN Done(c) /\ UNCHANGED <<sent, response>>
     ELSE Goto(c, "getCached") /\ UNCHANGED <<sent, response>>
  /\ UNCHANGED <<settings, ticks, clients>>
  /\ UnchangedStore

\* a statement of the store throws: inside upsertSetting the run falls into
\* its catch (fetchError) block and a route answers 500; at the read of the
\* last snapshot the run falls into its outer catch block
StoreThrows(c) ==
  /\ c.pc \in {"upsertRead", "upsertUpdate", "upsertInsert", "upsertReadBack",
               "getCached"}
  /\ IF c.op # "poll"
     THEN Done(c) /\ response' = Respond(c.op, c.id, 500) /\ UNCHANGED sent
     ELSE IF c.pc = "getCached"
     THEN Broadcast(c, InternalError) /\ UNCHANGED response
     ELSE Goto(c, "getCached") /\ UNCHANGED <<sent, response>>
  /\ UNCHANGED <<settings, ticks, clients>>
  /\ UnchangedStore

\* wss.on('connection'): the socket is marked alive and joins the clients set
Connect ==
  /\ Len(clients) < MaxClients
  /\ clients' = Append(clients, [state |-> "open", isAlive |-> TRUE,
                                 owes |-> FALSE, beats |-> 0, pongs |-> 0])
  /\ UNCHANGED <<settings, calls, sent, ticks, response>>
  /\ UnchangedStore

\* ws.on('close'): the subscriber went away and leaves the clients set
Close(ws) ==
  /\ clients[ws].state = "open"
  /\ clients' = [clients EXCEPT ![ws].state = "closed"]
  /\ UNCHANGED <<settings, calls, sent, ticks, response>>
  /\ UnchangedStore

\* the setInterval callback of the heartbeat: every socket of wss.clients
\* whose isAlive is false is taken out of the clients set and terminated,
\* every other one is marked not alive and pinged
Heartbeat ==
  /\ \E ws \in DOMAIN clients : clients[ws].state = "open"
  /\ \A ws \in DOMAIN clients :
        clients[ws].state = "open" => clients[ws].beats < MaxBeats
  /\ clients' = [ws \in DOMAIN clients |->
        IF clients[ws].state # "open" THEN clients[ws]
        ELSE IF clients[ws].isAlive = FALSE
        THEN [clients[ws] EXCEPT !.state = "terminated", !.beats = @ + 1]
        ELSE [clients[ws] EXCEPT !.isAlive = FALSE, !.owes = TRUE,
                                 !.beats = @ + 1]]
  /\ UNCHANGED <<settings, calls, sent, ticks, response>>
  /\ UnchangedStore

\* a pong handler that leaves isAlive as it is
PongIgnored(ws) ==
  /\ clients[ws].state = "open"
  /\ clients[ws].owes
  /\ clients' = [clients EXCEPT ![ws].owes = FALSE, ![ws].pongs = @ + 1]
  /\ UNCHANGED <<settings, calls, sent, ticks, response>>
  /\ UnchangedStore

\* ws.on('pong'): the subscriber answers the ping it owes an answer to, and
\* the handler marks the socket alive
Pong(ws) ==
  /\ clients[ws].state = "open"
  /\ clients[ws].owes
  /\ clients' = [clients EXCEPT ![ws].isAlive = TRUE, ![ws].owes = FALSE,
                                ![ws].pongs = @ + 1]
  /\ UNCHANGED <<settings, calls, sent, ticks, response>>
  /\ UnchangedStore

\* the users of the settings routes: the hard-coded admin and one plain user
PollInit ==
  /\ users = SeededVisitors
  /\ discordIds = NoLinks
  /\ guidelines = <<>>
  /\ news = <<>>
  /\ ServiceIdle
  /\ tickets = <<>>
  /\ replies = <<>>
  /\ applications = <<>>
  /\ staffMembers = EmptyBag
  /\ reqs = EmptyBag
  /\ response = NoResponse

\* the poll over a store that answers every statement
PollNext ==
  \/ Tick
  \/ \E c \in Running, ok \in BOOLEAN, p \in Players : Fetch(c, ok, p)
  \/ \E id \in UserIds \cup {Anonymous}, w \in AdminWrites, valid \in BOOLEAN :
        PutSetting(id, w.key, w.value, valid)
  \/ \E c \in Running : UpsertRead(c)
  \/ \E c \in Running : UpsertUpdate(c)
  \/ \E c \in Running : UpsertInsert(c)
  \/ \E c \in Running : UpsertReturn(c)
  \/ \E c \in Running : GetCached(c)
  \/ \E c \in Running, read \in BOOLEAN : Fallback(c, read)

SpecPoll == PollInit /\ [][PollNext]_vars

\* a step of a run of updateServerStats, which may fail at the fetch or at
\* any statement of the store
RunStep(c) ==
  /\ c.op = "poll"
  /\ \/ \E ok \in BOOLEAN, p \in Players : Fetch(c, ok, p)
     \/ UpsertRead(c)
     \/ UpsertUpdate(c)
     \/ UpsertInsert(c)
     \/ UpsertReturn(c)
     \/ GetCached(c)
     \/ \E read \in BOOLEAN : Fallback(c, read)
     \/ StoreThrows(c)

\* the poll over a failing store, with subscribers coming and going
FailingPollNext ==
  \/ Tick
  \/ \E c \in Running : RunStep(c)
  \/ Connect
  \/ \E ws \in DOMAIN clients : Close(ws)

\* the push channel: subscribers come, answer pings or stay silent, and go,
\* while the heartbeat and the poll run
PushNext ==
  \/ Connect
  \/ \E ws \in DOMAIN clients : Close(ws)
  \/ Heartbeat
  \/ \E ws \in DOMAIN clients : Pong(ws)
  \/ Tick
  \/ \E c \in Running : RunStep(c)

SpecPush == PollInit /\ [][PushNext]_vars

\* the settings routes under concurrent requests: a user saving an
\* appearance and an administrator saving settings
UpsertNext ==
  \/ \E id \in Members \cup {Anonymous}, body \in Themes : Appearance(id, body)
  \/ \E id \in Reviewers \cup Members, w \in AdminWrites, valid \in BOOLEAN :
        PutSetting(id, w.key, w.value, valid)
  \/ \E c \in Running : UpsertRead(c)
  \/ \E c \in Running : UpsertUpdate(c)
  \/ \E c \in Running : UpsertInsert(c)
  \/ \E c \in Running : UpsertReturn(c)

SpecUpserts == PollInit /\ [][UpsertNext]_vars

\* the timer fires, and every await of a run settles: the fetches under the
\* abort timer, the statements of the store with a result or an error
SpecFailingPoll ==
  /\ PollInit
  /\ [][FailingPollNext]_vars
  /\ WF_vars(Tick)
  /\ WF_vars(\E c \in Running : RunStep(c))

(***************************************************************************)
(* Slug generators of the editors                                          *)
(***************************************************************************)
\* one character of each class the generators tell apart: a lowercase and
\* an uppercase letter, a digit, the underscore, the hyphen, a blank, a
\* punctuation mark and a letter outside ASCII
Alphabet == {"a", "A", "1", "_", "-", " ", "!", "\\u00e9"}

\* \w, \s and the complement class [^\w\s-]
WordChars == {"a", "A", "1", "_"}
SpaceChars == {" "}
SpecialChars == Alphabet \ (WordChars \cup SpaceChars \cup {"-"})

Titles == UNION {[1..n -> Alphabet] : n \in 0..MaxLen}

\* String.prototype.toLowerCase
toLowerCase(text) == [i \in DOMAIN text |-> IF text[i] = "A" THEN "a" ELSE text[i]]

Reverse(text) == [i \in DOMAIN text |-> text[Len(text) + 1 - i]]

RECURSIVE dropWhile(_, _)
\* text without its leading characters of the class
dropWhile(text, class) ==
  IF text # <<>> /\ Head(text) \in class THEN dropWhile(Tail(text), class) ELSE text

\* String.prototype.trim, and .replace(/^-+|-+$/g, '')
strip(text, class) == Reverse(dropWhile(Reverse(dropWhile(text, class)), class))

\* .replace(/[class]/g, '')
remove(text, class) == SelectSeq(text, LAMBDA ch : ch \notin class)

RECURSIVE collapse(_, _)
\* .replace(/[class]+/g, '-')
collapse(text, class) ==
  IF text = <<>> THEN <<>>
  ELSE IF Head(text) \in class
       THEN <<"-">> \o collapse(dropWhile(text, class), class)
       ELSE <<Head(text)>> \o collapse(Tail(text), class)

\* .replace(/[class]/g, '-')
dash(text, class) == [i \in DOMAIN text |-> IF text[i] \in class THEN "-" ELSE text[i]]

\* slugify of src/lib/constants.ts
slugify(text) ==
  strip(collapse(remove(strip(toLowerCase(text), SpaceChars), SpecialChars),
                 SpaceChars \cup {"_", "-"}),
        {"-"})

\* generateSlug of the news editor
generateSlug(title) ==
  collapse(collapse(remove(toLowerCase(title), SpecialChars), SpaceChars), {"-"})

\* the onChange handler of the slug field of the guidelines editor
sanitizeSlug(value) ==
  collapse(dash(toLowerCase(value), Alphabet \ {"a", "1", "-"}), {"-"})

\* the page derives the slug from the title with slugify
Slugify ==
  /\ form' = [form EXCEPT !.slug = slugify(form.title), !.by = "slugify"]
  /\ UNCHANGED <<settings, calls, sent, ticks, clients, response>>
  /\ UNCHANGED <<users, tickets, replies, applications, staffMembers, reqs,
                 discordIds, guidelines, news>>

\* the news editor derives the slug from the title
GenerateSlug ==
  /\ form' = [form EXCEPT !.slug = generateSlug(form.title), !.by = "generateSlug"]
  /\ UNCHANGED <<settings, calls, sent, ticks, clients, response>>
  /\ UNCHANGED <<users, tickets, replies, applications, staffMembers, reqs,
                 discordIds, guidelines, news>>

\* the guidelines editor cleans what was typed into the slug field
SanitizeSlug ==
  /\ form' = [form EXCEPT !.slug = sanitizeSlug(form.title), !.by = "sanitizeSlug"]
  /\ UNCHANGED <<settings, calls, sent, ticks, clients, response>>
  /\ UNCHANGED <<users, tickets, replies, applications, staffMembers, reqs,
                 discordIds, guidelines, news>>

\* an editor opened with any title typed into it
SlugInit ==
  /\ users = SeededVisitors
  /\ discordIds = NoLinks
  /\ guidelines = <<>>
  /\ news = <<>>
  /\ settings = <<>>
  /\ calls = EmptyBag
  /\ sent = <<>>
  /\ ticks = 0
  /\ clients = <<>>
  /\ form \in {[title |-> t, slug |-> <<>>, by |-> "none"] : t \in Titles}
  /\ tickets = <<>>
  /\ replies = <<>>
  /\ applications = <<>>
  /\ staffMembers = EmptyBag
  /\ reqs = EmptyBag
  /\ response = NoResponse

SlugNext ==
  \/ Slugify
  \/ GenerateSlug
  \/ SanitizeSlug

SpecSlug == SlugInit /\ [][SlugNext]_vars

(***************************************************************************)
(* Accounts: registration, password login, logout and the profile           *)
(***************************************************************************)
\* the account routes touch nothing but the user table and the answer
UnchangedAccounts ==
  UNCHANGED <<tickets, replies, applications, staffMembers, reqs, discordIds,
              guidelines, news, serviceVars>>

\* the ids a session can hold: those of the stored rows, that of the
\* synthetic administrator, and none
SessionIds == UserIds \cup {1, Anonymous}

\* POST /api/auth/register: the INSERT gives the new row the next id and the
\* role user, and req.login starts a session that holds that id; taken says
\* that a row with the username is there already
Register(taken) ==
  /\ Len(users) < MaxUsers
  /\ taken => \E id \in UserIds : users[id] # NoRow
  /\ IF taken
     THEN /\ response' = Respond("register", Anonymous, 400)
          /\ UNCHANGED users
     ELSE /\ users' = Append(users, "user")
          /\ response' = Respond("register", Len(users) + 1, 200)
  /\ UnchangedAccounts

\* POST /api/auth/login of setupAuth: the hard-coded pair starts a session
\* for the synthetic administrator; the name and password of the stored user
\* id (Anonymous: of nobody) start a session for that row
Login(pair, id) ==
  /\ response' = IF pair THEN Respond("login", adminUser.id, 200)
                 ELSE IF getUser(id) # NoRow THEN Respond("login", id, 200)
                 ELSE Respond("login", Anonymous, 401)
  /\ UNCHANGED users
  /\ UnchangedAccounts

\* POST /api/auth/logout
Logout(id) ==
  /\ response' = Respond("logout", id, 200)
  /\ UNCHANGED users
  /\ UnchangedAccounts

\* the profile route handing the whole body to updateUser, role included
PatchProfileWithRole(id) ==
  /\ response' = IF ~isAuthenticated(id) THEN Respond("profile", id, 401)
                 ELSE IF getUser(id) = NoRow THEN Respond("profile", id, 404)
                 ELSE Respond("profile", id, 200)
  /\ users' = IF isAuthenticated(id) THEN updateUser(id, "admin") ELSE users
  /\ UnchangedAccounts

\* PATCH /api/auth/profile: updateUser is given a username and a password,
\* and answers the row it reads back
PatchProfile(id) ==
  /\ response' = IF ~isAuthenticated(id) THEN Respond("profile", id, 401)
                 ELSE IF getUser(id) = NoRow THEN Respond("profile", id, 404)
                 ELSE Respond("profile", id, 200)
  /\ UNCHANGED users
  /\ UnchangedAccounts

\* GET /api/auth/me of setupAuth: the answer is req.user, shown by its role
Me(id) ==
  /\ response' = IF ~isAuthenticated(id) THEN Respond("me", id, 401)
                 ELSE RespondWith("me", id, 200, {deserializeUser(id).role})
  /\ UNCHANGED users
  /\ UnchangedAccounts

\* a fresh installation: no user row yet
AccountInit ==
  /\ users = <<>>
  /\ discordIds = NoLinks
  /\ guidelines = <<>>
  /\ news = <<>>
  /\ ServiceIdle
  /\ tickets = <<>>
  /\ replies = <<>>
  /\ applications = <<>>
  /\ staffMembers = EmptyBag
  /\ reqs = EmptyBag
  /\ response = NoResponse

AccountNext ==
  \/ \E taken \in BOOLEAN : Register(taken)
  \/ \E pair \in BOOLEAN, id \in SessionIds : Login(pair, id)
  \/ \E id \in SessionIds : Logout(id)
  \/ \E id \in SessionIds : PatchProfile(id)
  \/ \E id \in SessionIds : Me(id)
  \/ \E id \in SessionIds : ListStaffAdmin(id)

SpecAccounts == AccountInit /\ [][AccountNext]_vars

\* no ticket or application yet, and no request of theirs in flight
NoWorkflow == tickets = <<>> /\ applications = <<>> /\ reqs = EmptyBag

\* no saved setting yet, and no call of the settings routes in flight
NoSetting == settings = <<>> /\ calls = EmptyBag

\* no ticket, application or setting yet
NoTable == tickets = <<>> /\ applications = <<>> /\ NoSetting

\* every route a signed-in user reaches, with the approval of an
\* administrator beside them.  The settings route shares no table with the
\* workflows, so it is run on a server where they have not started, and they
\* on one where it has not; the Discord login is run before either
SelfServiceNext ==
  \/ \E taken \in BOOLEAN : Register(taken)
  \/ \E pair \in BOOLEAN, id \in Members : Login(pair, id)
  \/ \E id \in Members : Logout(id)
  \/ \E id \in Members : PatchProfile(id)
  \/ NoTable /\ \E via \in {"callback", "strategy"}, d \in DiscordProfiles,
                    ok \in BOOLEAN : DiscordLogin(via, d, ok)
  \/ NoTable /\ \E r \in InFlight : CreateUser(r)
  \/ NoTable /\ \E r \in InFlight : UpdateProfile(r)
  \/ NoWorkflow /\ \E id \in Members, body \in Themes : Appearance(id, body)
  \/ NoWorkflow /\ \E c \in Running : UpsertRead(c)
  \/ NoWorkflow /\ \E c \in Running : UpsertUpdate(c)
  \/ NoWorkflow /\ \E c \in Running : UpsertInsert(c)
  \/ NoWorkflow /\ \E c \in Running : UpsertReturn(c)
  \/ NoSetting /\ \E id \in Members, valid \in BOOLEAN : SubmitApplication(id, valid)
  \/ NoSetting /\ \E id \in Reviewers, a \in ApplicationIds,
                      status \in {"approved", "rejected"} :
                        PatchApplication(id, a, status)
  \/ NoSetting /\ \E r \in InFlight : MemberCheck(r)
  \/ NoSetting /\ \E r \in InFlight : CreateMember(r)
  \/ NoSetting /\ \E r \in InFlight : UpdateRole(r)
  \/ NoSetting /\ \E id \in Members, valid \in BOOLEAN : CreateTicket(id, valid)
  \/ NoSetting /\ \E id \in Members, t \in TicketIds : CloseTicket(id, t)
  \/ NoSetting /\ \E id \in Members, t \in TicketIds, valid \in BOOLEAN :
                      UserReply(id, t, valid)
  \/ NoSetting /\ \E r \in InFlight : InsertReply(r)
  \/ NoSetting /\ \E r \in InFlight : StaffCheck(r)
  \/ NoSetting /\ \E r \in InFlight : StaffUpdate(r)
  \/ NoSetting /\ \E r \in InFlight : RouteUpdate(r)

\* a user of each stored role, user 2 having signed in through Discord before
SelfServiceInit ==
  /\ users = SeededRoles
  /\ discordIds = (2 :> "d1")
  /\ guidelines = <<>>
  /\ news = <<>>
  /\ ServiceIdle
  /\ tickets = <<>>
  /\ replies = <<>>
  /\ applications = <<>>
  /\ staffMembers = EmptyBag
  /\ reqs = EmptyBag
  /\ response = NoResponse

SpecSelfService == SelfServiceInit /\ [][SelfServiceNext]_vars

(***************************************************************************)
(* Properties of the application workflow, checked under SpecApplications  *)
(***************************************************************************)
PendingOf(u) ==
  {a \in DOMAIN applications :
     applications[a].userId = u /\ applications[a].status = "pending"}

\* rows of the staff roster that carry userId u
RosterRows(u) ==
  BagCardinality([m \in getStaffMemberByUserId(u) |-> staffMembers[m]])

\* C6: no user has more than one application with status pending
C6_AtMostOnePending ==
  \A u \in UserIds : Cardinality(PendingOf(u)) <= 1

\* C7: a submission by an authenticated user who has a pending application
\* is answered 400 and creates no application row
C7_SecondSubmissionRejected ==
  [][\A id \in UserIds, valid \in BOOLEAN :
        (isAuthenticated(id) /\ hasPendingApplication(id)
           /\ SubmitApplication(id, valid))
          => /\ response' = Respond("submit", id, 400)
             /\ applications' = applications]_vars

\* C8: an application whose status is approved or rejected keeps that status
C8_ReviewedIsTerminal ==
  [][\A a \in DOMAIN applications :
        applications[a].status \in {"approved", "rejected"}
          => applications'[a].status = applications[a].status]_vars

\* the applicant of application a is on the roster as moderator and has the
\* role moderator
Promoted(a) ==
  /\ [userId |-> applications[a].userId, role |-> "moderator"]
        \in BagToSet(staffMembers)
  /\ getUser(applications[a].userId) = "moderator"

\* C9: once an admin's approval of a pending application of a user without
\* roster entry has been answered, through the approve route or through a
\* status update to approved, that user is on the roster as moderator and
\* has the role moderator
C9_ApprovalPromotes ==
  [][/\ \A id \in UserIds, a \in DOMAIN applications :
          ( /\ applications[a].status = "pending"
            /\ getUser(applications[a].userId) # NoRow
            /\ getStaffMemberByUserId(applications[a].userId) = {}
            /\ isAdmin(id) = 0
            /\ ApproveApplication(id, a) )
            => Promoted(a)'
     /\ \A r \in InFlight :
          ( /\ r.op = "patch"
            /\ getUser(applications[r.tid].userId) # NoRow
            /\ reqs' = Leave(r)
            /\ response' = Respond("patch", r.userId, 200) )
            => Promoted(r.tid)']_vars

\* C10: the staff roster never holds more than one row with the same userId
C10_OneRosterRowPerUser ==
  \A u \in UserIds : RosterRows(u) <= 1

\* C11: when an approval ends because the roster insert or the role update
\* failed, the application is not left approved with its applicant off the
\* roster or still of role user
C11_ApprovalIsOneUnit ==
  [][\A r \in InFlight :
        ApprovalFails(r)
          => ~( /\ applications'[r.tid].status = "approved"
                /\ \/ getStaffMemberByUserId(applications[r.tid].userId)' = {}
                   \/ getUser(applications[r.tid].userId)' = "user" )]_vars

\* a request of admin id that writes the status of application a
SetsStatus(id, a) ==
  \/ ApproveApplication(id, a)
  \/ RejectApplication(id, a)
  \/ \E status \in {"pending", "approved", "rejected"} :
        PutApplication(id, a, status) \/ PatchApplication(id, a, status)

\* C12: the reviewedBy of an approved or rejected application is written
\* only by a request that sets the status, together with the status and as
\* the id of the admin who sent it
C12_ReviewerRecordedWithStatus ==
  [][\A a \in DOMAIN applications :
        ( /\ applications'[a] # applications[a]
          /\ applications'[a].status \in {"approved", "rejected"} )
          => \E id \in UserIds :
                /\ isAdmin(id) = 0
                /\ SetsStatus(id, a)
                /\ applications'[a].reviewedBy = id]_vars

(***************************************************************************)
(* Further properties of the ticket workflow, checked under Spec           *)
(***************************************************************************)
\* C13: an admin's assignment of a closed ticket changes neither the ticket
\* nor the reply log and starts no system reply; on any other ticket it
\* stores the assignee and sets the status processing
C13_NoAssignmentOnceClosed ==
  [][\A id \in UserIds, t \in DOMAIN tickets :
        (isAdmin(id) = 0 /\ AssignTicket(id, t))
          => IF tickets[t].status = "closed"
             THEN UNCHANGED <<tickets, replies, reqs>>
             ELSE /\ tickets'[t].assignedTo = id
                  /\ tickets'[t].status = "processing"]_vars

\* C14: a close by the owner or an admin of an open or processing ticket
\* leaves it closed with closedAt set and closedBy the actor, and the
\* closedBy of a ticket that has been closed never changes afterwards
C14_CloseRecordsActor ==
  [][/\ \A id \in UserIds, t \in DOMAIN tickets :
          ( /\ isAuthenticated(id)
            /\ ~accessDenied(t, id)
            /\ tickets[t].status \in {"open", "processing"}
            /\ CloseTicket(id, t) )
            => /\ tickets'[t].status = "closed"
               /\ tickets'[t].closedAt
               /\ tickets'[t].closedBy = id
     /\ \A t \in DOMAIN tickets :
          tickets[t].closedAt => tickets'[t].closedBy = tickets[t].closedBy]_vars

\* C15: every ticket's status is one of open, processing, closed
C15_StatusInDomain ==
  \A t \in DOMAIN tickets : tickets[t].status \in {"open", "processing", "closed"}

\* C16: the reply an assignment appends is one reply on the assigned ticket,
\* authored by the assigning admin and stored with the staff flag and the
\* system-generated flag set
C16_AssignmentLeavesSystemReply ==
  [][\A r \in InFlight :
        (r.op = "assign" /\ InsertReply(r))
          => /\ Len(replies') = Len(replies) + 1
             /\ replies'[Len(replies')].ticketId = r.tid
             /\ replies'[Len(replies')].userId = r.userId
             /\ replies'[Len(replies')].isStaff
             /\ replies'[Len(replies')].isSystemMessage]_vars

\* a result of getTicketReplies lists the replies in the order of creation
InCreationOrder(f) == \A j, k \in DOMAIN f : j < k => f[j] < f[k]

\* C17: a stored reply stays in the log unchanged, every reply belongs to
\* one existing ticket, and getTicketReplies returns a ticket's replies in
\* the order they were created
C17_ReplyLogAppendOnly ==
  [][/\ \A i \in DOMAIN replies :
          i \in DOMAIN replies' /\ replies'[i] = replies[i]
     /\ \A i \in DOMAIN replies' : replies'[i].ticketId \in DOMAIN tickets'
     /\ \A t \in DOMAIN tickets' :
          \A f \in getTicketReplies(t)' : InCreationOrder(f)]_vars

\* the isAdmin middleware turns the request away: 401 or 403, nothing else
\* changes and no request enters the handler
TurnedAway(op, id) ==
  /\ response' = Respond(op, id, isAdmin(id))
  /\ UNCHANGED <<users, tickets, replies, reqs, applications, staffMembers>>

\* C18: a request to a route under /api/admin by a principal who is not an
\* authenticated admin is answered 401 (unauthenticated) or 403 (other
\* role) and its handler does not run
C18_AdminRoutesGuarded ==
  [][\A id \in UserIds \cup {Anonymous} :
        isAdmin(id) # 0 =>
          /\ \A t \in TicketIds :
                /\ AssignTicket(id, t) => TurnedAway("assign", id)
                /\ AdminReply(id, t) => TurnedAway("adminReply", id)
          /\ ServerStats(id) => TurnedAway("serverStats", id)]_vars

(***************************************************************************)
(* Properties of the Discord login, checked under SpecLogin                *)
(***************************************************************************)
\* C19: a login whose identity was not linked inserts one user row, of role
\* user and linked to that identity, and changes no other row; a login
\* whose identity was linked inserts no row and changes no role or link
C19_LoginProvisionsOnce ==
  [][/\ \A via \in {"callback", "strategy"}, d \in DiscordProfiles :
          DiscordLogin(via, d, TRUE)
            => /\ UNCHANGED <<users, discordIds>>
               /\ \E r \in BagToSet(reqs') :
                     /\ reqs' = Enter(r)
                     /\ r.pc = IF getUserByDiscordId(d) = {}
                               THEN "createUser" ELSE "updateProfile"
     /\ \A r \in InFlight :
          /\ CreateUser(r)
               => /\ Len(users') = Len(users) + 1
                  /\ users'[Len(users')] = "user"
                  /\ getUserByDiscordId(r.tStatus)' =
                        getUserByDiscordId(r.tStatus) \cup {Len(users')}
                  /\ \A id \in DOMAIN users : users'[id] = users[id]
                  /\ \A id \in DOMAIN discordIds : discordIds'[id] = discordIds[id]
          /\ UpdateProfile(r) => UNCHANGED <<users, discordIds>>]_vars

\* C19 witness: a login has provisioned a user of role user, and the login
\* of the linked moderator has been answered with the role still moderator
C19_Witness ==
  /\ \E id \in DOMAIN discordIds : id > Len(SeededLinked) /\ users[id] = "user"
  /\ response = Respond("callback", 2, 302)
  /\ users[2] = "moderator"

(***************************************************************************)
(* Properties of the content routes, checked under SpecContent             *)
(***************************************************************************)
\* C20: the public guideline routes answer with published guidelines only,
\* and the public staff list with active members only
C20_PublicSeesPublishedOnly ==
  [][\A id \in UserIds \cup {Anonymous} :
        /\ \A publishedOnly \in BOOLEAN :
              ListGuidelines(id, publishedOnly)
                => \A g \in response'.rows : guidelines[g].isPublished
        /\ \A op \in {"guideline", "guidelineBySlug"}, g \in GuidelineIds :
              GetGuideline(op, id, g)
                => \A row \in response'.rows : guidelines[row].isPublished
        /\ ListStaff(id) => \A m \in response'.rows : m.isActive]_vars

\* C21: a get, update or delete request naming an id that is not in the store
\* is answered 404 and leaves the store as it was (news and guidelines)
C21_MissingIdAnswered404 ==
  [][\A id \in UserIds \cup {Anonymous} :
        isAdmin(id) = 0 =>
          /\ \A n \in NewsIds :
                ~newsExists(n) =>
                   /\ GetNews(id, n) => response'.code = 404 /\ news' = news
                   /\ \A published \in BOOLEAN :
                         UpdateNews(id, n, published)
                           => response'.code = 404 /\ news' = news
                   /\ DeleteNews(id, n) => response'.code = 404 /\ news' = news
          /\ \A g \in GuidelineIds :
                ~guidelineExists(g) =>
                   /\ \A op \in {"guideline", "guidelineBySlug"} :
                         GetGuideline(op, id, g)
                           => response'.code = 404 /\ guidelines' = guidelines
                   /\ \A isPublished \in BOOLEAN :
                         UpdateGuideline(id, g, isPublished)
                           => response'.code = 404 /\ guidelines' = guidelines
                   /\ DeleteGuideline(id, g)
                        => response'.code = 404 /\ guidelines' = guidelines]_vars

(***************************************************************************)
(* Properties of the status poll, checked under SpecPoll                   *)
(***************************************************************************)
\* a run whose fetch succeeded has broadcast its stats: an earlier cycle
\* persisted a snapshot
EverPersisted ==
  \E k \in DOMAIN sent :
     sent[k].snap.cached = "absent" /\ sent[k].snap.error = "none"

\* the run c broadcasts snap in this step
Sends(c, snap) ==
  /\ Len(sent') = Len(sent) + 1
  /\ sent'[Len(sent')].run = c.id
  /\ sent'[Len(sent')].snap = snap

\* C22: a cycle whose fetch failed, reading the last snapshot after an
\* earlier cycle persisted one, broadcasts the persisted snapshot marked
\* cached; when no snapshot was ever persisted it broadcasts the
\* unavailable-server record marked not cached
C22_FailedFetchServesSnapshot ==
  [][\A c \in Running :
        (c.op = "poll" /\ c.value = NoValue) =>
          /\ (GetCached(c) /\ EverPersisted) =>
                \E i \in rowsOf(StatsKey) :
                   /\ parses(settings[i].value)
                   /\ Sends(c, [parse(settings[i].value) EXCEPT !.cached = "true"])
          /\ (GetCached(c) /\ rowsOf(StatsKey) = {}) =>
                /\ sent' = sent
                /\ \E d \in BagToSet(calls') : d.id = c.id /\ d.pc = "fallback"
          /\ \A read \in BOOLEAN :
                Fallback(c, read) =>
                   \E isOnline \in BOOLEAN : Sends(c, Unavailable(isOnline))]_vars

\* the broadcasts of run id
BroadcastsOf(id) == {k \in DOMAIN sent : sent[k].run = id}

\* run id has started and is over
Finished(id) == id <= ticks /\ \A c \in Running : c.id # id

\* C23: every run of the poll terminates, whichever step fails, having
\* broadcast exactly one snapshot to the subscribers open at that moment,
\* and every tick runs whatever happened to the runs before it
C23_EveryRunBroadcastsOnce ==
  /\ [](\A id \in 1..MaxTicks :
          /\ Finished(id) => Cardinality(BroadcastsOf(id)) = 1
          /\ ~Finished(id) => BroadcastsOf(id) = {})
  /\ [][Len(sent') > Len(sent) =>
          /\ Len(sent') = Len(sent) + 1
          /\ sent'[Len(sent')].to = OpenClients]_vars
  /\ \A id \in 1..MaxTicks : <>[]Finished(id)

\* C23 witness: every run is over, one after its read of the last snapshot
\* threw, one after a failed write of the snapshot, with a subscriber open
C23_Witness ==
  /\ \A id \in 1..MaxTicks : Finished(id)
  /\ \E k \in DOMAIN sent : sent[k].snap = InternalError
  /\ \E k \in DOMAIN sent : sent[k].snap.cached = "true" /\ sent[k].to # {}

(***************************************************************************)
(* Properties of the slug generators, checked under SpecSlug               *)
(***************************************************************************)
\* the characters of [a-z0-9-]
SlugChars == {"a", "1", "-"}

\* a title of letters, digits and blanks that neither starts nor ends with a
\* blank
PlainTitle(t) ==
  /\ \A i \in DOMAIN t : t[i] \in {"a", "A", "1", " "}
  /\ t # <<>> => t[1] # " " /\ t[Len(t)] # " "

\* C24: the slug that slugify or generateSlug makes of a title is lowercase,
\* has only characters of [a-z0-9-], and has one hyphen in place of every
\* run of whitespace of the title
C24_SlugIsClean ==
  form.by \in {"slugify", "generateSlug"} =>
    /\ \A i \in DOMAIN form.slug : form.slug[i] \in SlugChars
    /\ PlainTitle(form.title) =>
         form.slug = collapse(toLowerCase(form.title), SpaceChars)

(***************************************************************************)
(* Properties of concurrent ticket requests, checked under Spec            *)
(***************************************************************************)
\* the close metadata of ticket t is set exactly when the ticket is closed
CloseMetadataAgrees(t) ==
  /\ tickets[t].closedAt <=> tickets[t].status = "closed"
  /\ tickets[t].closedBy # 0 <=> tickets[t].status = "closed"

\* C25: when a reply or an assignment that read the ticket before it was
\* closed is the last request to finish, closedAt and closedBy are set if
\* and only if the ticket's status is closed
C25_CloseMetadataIffClosed ==
  [][\A r \in InFlight :
        ( /\ r.op \in {"reply", "adminReply", "assign"}
          /\ r.tStatus # "closed"
          /\ reqs' = Leave(r)
          /\ reqs' = EmptyBag )
          => CloseMetadataAgrees(r.tid)']_vars

(***************************************************************************)
(* Properties of the approval's role change, checked under SpecReviewers   *)
(***************************************************************************)
\* C27: approving an application never lowers the applicant's role: the step
\* of an approval that sets the role leaves an applicant whose stored role is
\* admin with role admin, and changes to moderator only a stored role of user
C27_ApprovalNeverLowersRole ==
  [][\A r \in InFlight :
       UpdateRole(r) =>
         \A id \in UserIds :
           /\ users[id] = "admin" => users'[id] = "admin"
           /\ users'[id] # users[id] => users[id] = "user" /\ users'[id] = "moderator"]_vars

C28_RoleChangesOnlyByApproval ==
  [][/\ DOMAIN users \subseteq DOMAIN users'
     /\ \A id \in DOMAIN users :
          users'[id] # users[id] =>
            \E r \in InFlight :
               r.op = "patch" /\ isAdmin(r.userId) = 0 /\ UpdateRole(r)]_vars

\* a user has registered, a ticket was opened, answered and closed, and the
\* approval of an application has changed the role of user 2
C28_Witness ==
  /\ Len(users) > Len(SeededRoles)
  /\ users[2] = "moderator"
  /\ replies # <<>>
  /\ \E t \in DOMAIN tickets : tickets[t].status = "closed"

(***************************************************************************)
(* Properties of the heartbeat, checked under SpecPush                     *)
(***************************************************************************)
\* C29: at a heartbeat tick an open subscriber is terminated, and leaves the
\* set broadcasts go to, exactly when it owes the answer to the ping of the
\* tick before; every other open subscriber stays, marked not alive and
\* pinged.  Nothing but the heartbeat terminates a subscriber, so one that
\* has answered every ping is open at every tick, and one that never
\* answered is terminated at the second tick it sees
C29_HeartbeatDropsSilent ==
  /\ [][Heartbeat =>
         \A ws \in DOMAIN clients :
           clients[ws].state = "open" =>
             IF clients[ws].owes
             THEN clients'[ws].state = "terminated" /\ ws \notin OpenClients'
             ELSE /\ ws \in OpenClients'
                  /\ clients'[ws].isAlive = FALSE
                  /\ clients'[ws].owes]_vars
  /\ [][\A ws \in DOMAIN clients :
          clients[ws].state # "terminated" /\ clients'[ws].state = "terminated"
            => Heartbeat /\ clients[ws].owes]_vars
  /\ [](\A ws \in DOMAIN clients :
          /\ clients[ws].state = "terminated" => clients[ws].pongs + 1 < clients[ws].beats
          /\ clients[ws].pongs = 0 =>
                /\ clients[ws].beats <= 2
                /\ clients[ws].beats = 2 => clients[ws].state = "terminated")

\* one subscriber never answered and was terminated at its second tick, while
\* another answered two pings and is still subscribed
C29_Witness ==
  \E a, b \in DOMAIN clients :
    /\ clients[a].state = "terminated" /\ clients[a].pongs = 0 /\ clients[a].beats = 2
    /\ clients[b].state = "open" /\ clients[b].pongs >= 2

(***************************************************************************)
(* Properties of concurrent upserts, checked under SpecUpserts             *)
(***************************************************************************)
\* the keys the settings routes write
WrittenKeys == {StatsKey, OnlineKey, AppearanceKey(2)}

\* the values the calls of upsertSetting for a key carry
WrittenValues(key) ==
  IF key = AppearanceKey(2) THEN {stringify(body) : body \in Themes}
  ELSE {w.value : w \in {x \in AdminWrites : x.key = key}}

\* C30: however the statements of concurrent upsertSetting calls interleave,
\* the settings table holds at most one row for a key, and the value of that
\* row is the value one of the calls for the key carried
C30_OneRowPerKey ==
  \A key \in WrittenKeys :
    /\ Cardinality(rowsOf(key)) <= 1
    /\ \A i \in rowsOf(key) : settings[i].value \in WrittenValues(key)

====
